---- MODULE Spec2Model ----
(***************************************************************************)
(* McpTaskManager.executeRooTasks / executeTask and the Semaphore of       *)
(* src/docs/demo-workflow.mmd, as a state machine.                         *)
(*                                                                         *)
(* One step of the model is one turn of the JavaScript event loop: a       *)
(* callback entered from outside (a runtime event handler, a timer         *)
(* callback, a settled promise of startNewTask or of streamContent) runs   *)
(* up to its first real suspension point, and the microtasks it queued     *)
(* (the promise of executeTask settling, the finally block releasing the   *)
(* permit, the next waiter of the semaphore entering executeTask,          *)
(* Promise.allSettled resolving) run to completion in the same step.       *)
(*                                                                         *)
(* The agent runtime (RooCodeAdapter) is an external collaborator: it may  *)
(* call any handler of a started task, in any order, with any task id.     *)
(***************************************************************************)
EXTENDS Integers, Sequences, FiniteSets, TLC

\* ---------------------------------------------------------------- bounds
MaxQueries == 2          \* longest taskQueries list tried
MaxConcurrencyOpt == 2   \* largest options.maxConcurrency tried
MaxEvents == 3           \* runtime callbacks delivered in one run
MaxInflight == 1         \* terminal handlers of one task suspended at once
MaxCallers == 7          \* acquire() calls made on a Semaphore used alone
MaxConnections == 2      \* sockets the IPC server accepts
MaxLines == 2            \* lines the clients write to their sockets
MaxBroadcasts == 1       \* messages the IPC server broadcasts
MaxLoop == 2             \* iterations of one message loop of the workflow

TaskIds == {"t1", "t2"}                  \* ids the runtime hands out
\* payloads of the message event: a ClineMessage of type "ask" (the agent
\* waits for the user's answer), one of type "say", and no payload at all
Messages == {"ask", "say", "undefined"}
RequiresInput(m) == m = "ask"
Tools == {"tool"}
Errors == {"err"}

\* ------------------------------------------------------- result strings
\* a result is the sequence of the pieces its template literal concatenates;
\* the empty string is <<>>
Undefined == <<"<undefined>">>   \* the value undefined, which is not a string
CreatedResult == <<"Task created, waiting to start...">>
StartedResult == <<"Task started...">>
CompletedResult == <<"Task completed successfully">>
CancelledResult == <<"Task was cancelled">>
TimeoutResult == <<"Task timed out after 5 minutes">>
ToolFailedResult(tool, error) == <<"Tool ", tool, " failed: ", error>>
StartFailedResult(error) == <<"Failed to start task: ", error>>
NoTasksText == "*No tasks started yet...*"
NoId == ""                       \* let taskId = ""

TerminalStatus == {"completed", "failed", "cancelled"}

\* a placeholder id `error_${Date.now()}_${random}`: the k-th one generated
\* in a run; the generator is taken to yield an unused key every time
TempTaskId(k) == "error_" \o ToString(k)

VARIABLES
  isInitialized,   \* McpTaskManager.isInitialized
  initResult,      \* how the latest initialize() call ended
  phase,           \* position of the one executeRooTasks call
  taskQueries,     \* its first argument
  maxConcurrency,  \* options.maxConcurrency
  streamContent,   \* TRUE iff options.streamContent is supplied
  permits,         \* Semaphore.permits
  waitQueue,       \* Semaphore.waitQueue, as the queued acquirers in order
  run,             \* the registry: key -> TaskRun
  runKeys,         \* its keys in insertion order (Object.entries order)
  taskId,          \* per executeTask: the closure variable taskId
  timer,           \* per executeTask: timeoutId's timer
  promise,         \* per executeTask: state of the promise it returned
  startCmd,        \* per executeTask: state of rooAdapter.startNewTask(...)
  acquired,        \* per query: semaphore.acquire() has resolved
  released,        \* per query: number of release() calls made for it
  awaiting,        \* per executeTask: terminal handlers suspended in their
                   \* await streamContent(...), resolve() still ahead
  tempIds,         \* number of placeholder ids generated
  events,          \* runtime callbacks delivered so far
  lastSummary,     \* text of the last streamContent invocation
  clients,         \* MyIpcServer.clients: clientId -> socket
  socket,          \* per accepted socket: its state and the clientId that
                   \* handleConnection closed over
  toClient,        \* per socket: bytes the server wrote, and how many of
                   \* them the client has read
  toServer,        \* per socket: bytes the client wrote, and how many of
                   \* them the server has read
  emitted,         \* events MyIpcServer emitted, in order
  taskEvents,      \* per socket: "taskEvent"s RooCodeIpcClient emitted
  clientIds,       \* number of ids generateClientId() has produced
  broadcasts,      \* number of broadcast() calls made
  sseStep,         \* position of the task in the demo workflow
  sseConn,         \* the client's SSE connection: none, open or closed
  sseStream,       \* frames sent on the connection of the current request
  sseIter,         \* iterations made of the current message loop
  sseClosed        \* the frames of each connection that was closed, in order

vars == <<isInitialized, initResult, phase, taskQueries, maxConcurrency, streamContent,
          permits, waitQueue, run, runKeys, taskId, timer, promise, startCmd,
          acquired, released, awaiting, tempIds, events, lastSummary,
          clients, socket, toClient, toServer, emitted, taskEvents, clientIds,
          broadcasts, sseStep, sseConn, sseStream, sseIter, sseClosed>>

\* the state of the task manager, and the state of the IPC server and client
taskVars == <<isInitialized, initResult, phase, taskQueries, maxConcurrency, streamContent,
              permits, waitQueue, run, runKeys, taskId, timer, promise,
              startCmd, acquired, released, awaiting, tempIds, events,
              lastSummary>>
ipcVars == <<clients, socket, toClient, toServer, emitted, taskEvents,
             clientIds, broadcasts>>
sseVars == <<sseStep, sseConn, sseStream, sseIter, sseClosed>>

Slots == DOMAIN taskQueries      \* the queries of the running call
SlotIds == 1..MaxQueries         \* every index a query can have

\* ------------------------------------------------------------ summarizeRun
StatusText(status) ==
  CASE status = "created" -> "(Created)"
    [] status = "running" -> "(Ongoing)"
    [] status = "completed" -> ""
    [] status = "failed" -> "(Failed)"
    [] status = "cancelled" -> "(Cancelled)"

\* summarizeRun walking the entries from the last inserted to the first
summarizeRun_Reversed(r, keys) ==
  IF Len(keys) = 0
    THEN [title |-> "# RooCode Tasks", note |-> NoTasksText, sections |-> <<>>]
    ELSE [title |-> "# RooCode Tasks", note |-> "",
          sections |->
            [i \in 1..Len(keys) |->
               LET k == keys[Len(keys) + 1 - i] IN
               [task |-> r[k].task,
                statusText |-> StatusText(r[k].status),
                result |-> r[k].result,
                idLine |-> IF r[k].status \in {"completed", "failed"}
                             THEN <<k>> ELSE <<>>]]]

\* the markdown as [title, note, sections]: note is the line printed for an
\* empty registry, sections are the per-entry blocks in Object.entries order
summarizeRun(r, keys) ==
  IF Len(keys) = 0
    THEN [title |-> "# RooCode Tasks", note |-> NoTasksText, sections |-> <<>>]
    ELSE [title |-> "# RooCode Tasks", note |-> "",
          sections |->
            [i \in 1..Len(keys) |->
               [task |-> r[keys[i]].task,
                statusText |-> StatusText(r[keys[i]].status),
                result |-> r[keys[i]].result,
                idLine |-> IF r[keys[i]].status \in {"completed", "failed"}
                             THEN <<keys[i]>> ELSE <<>>]]]

\* --------------------------------------------------------------- Semaphore
\* a semaphore value is [permits, waitQueue]; granted is the set of callers
\* whose acquire() promise resolved during the call
SemAcquire_OffByOne(sem, s) ==
  IF sem.permits >= 0
    THEN [permits |-> sem.permits - 1, waitQueue |-> sem.waitQueue,
          granted |-> sem.granted \cup {s}]
    ELSE [permits |-> sem.permits, waitQueue |-> Append(sem.waitQueue, s),
          granted |-> sem.granted]

SemAcquire(sem, s) ==
  IF sem.permits > 0
    THEN [permits |-> sem.permits - 1, waitQueue |-> sem.waitQueue,
          granted |-> sem.granted \cup {s}]
    ELSE [permits |-> sem.permits, waitQueue |-> Append(sem.waitQueue, s),
          granted |-> sem.granted]

SemRelease_Lifo(sem) ==
  LET p == sem.permits + 1 IN
  IF Len(sem.waitQueue) > 0
    THEN [permits |-> p - 1,
          waitQueue |-> SubSeq(sem.waitQueue, 1, Len(sem.waitQueue) - 1),
          granted |-> {sem.waitQueue[Len(sem.waitQueue)]}]
    ELSE [permits |-> p, waitQueue |-> sem.waitQueue, granted |-> {}]

SemRelease_NoWake(sem) ==
  [permits |-> sem.permits + 1, waitQueue |-> sem.waitQueue, granted |-> {}]

SemRelease(sem) ==
  LET p == sem.permits + 1 IN
  IF Len(sem.waitQueue) > 0
    THEN [permits |-> p - 1, waitQueue |-> Tail(sem.waitQueue),
          granted |-> {Head(sem.waitQueue)}]
    ELSE [permits |-> p, waitQueue |-> sem.waitQueue, granted |-> {}]

RECURSIVE AcquireAll(_, _, _)
AcquireAll(sem, i, n) ==
  IF i > n THEN sem ELSE AcquireAll(SemAcquire(sem, i), i + 1, n)

\* ------------------------------------------------------------ small helpers
\* JSON.stringify(message, null, 2): a string for every value but undefined
JSONStringify(m) == IF m = "undefined" THEN Undefined ELSE <<"json", m>>

\* !run[id].result
Falsy(result) == result = <<>> \/ result = Undefined

\* run[id] = entry (a new key goes to the end of the insertion order)
SetEntry_DropsOthers(r, id, entry) == [k \in {id} |-> entry]

SetEntry(r, id, entry) ==
  [k \in DOMAIN r \cup {id} |-> IF k = id THEN entry ELSE r[k]]

AddKey(r, keys, id) == IF id \in DOMAIN r THEN keys ELSE Append(keys, id)

\* clearTimeout(timeoutId): disarms a timer that has not fired yet
clearTimeout(t) == IF t = "armed" THEN "cleared" ELSE t

\* if (streamContent) streamContent({type: "text", text: summarizeRun(run)}):
\* the text the callback has last been called with, after a callback ran
\* that reached this call (reached) with registry r
StreamContentCall_Skipped(reached, r, keys) == lastSummary

StreamContentCall(reached, r, keys) ==
  IF reached /\ streamContent THEN summarizeRun(r, keys) ELSE lastSummary

\* --------------------------------------------------------- promise plumbing
\* resolve()/reject() of the promise executeTask returned, with everything
\* that follows in the same microtask drain: the finally block of
\* executeRooTasks calls release(), the semaphore hands the permit to the
\* head of waitQueue, whose .then callback enters executeTask (arms its timer,
\* calls startNewTask), and Promise.allSettled resolves once no promise is
\* pending.  tm and sc are timer and startCmd as the calling callback left
\* them.  Settling a settled promise does nothing.
SettleTask(s, outcome, tm, sc) ==
  IF promise[s] # "pending"
    THEN /\ timer' = tm
         /\ startCmd' = sc
         /\ UNCHANGED <<promise, released, permits, waitQueue, acquired, phase>>
    ELSE LET sem == SemRelease([permits |-> permits, waitQueue |-> waitQueue,
                                granted |-> {}])
             settled == [promise EXCEPT ![s] = outcome]
         IN /\ promise' = settled
            /\ released' = [released EXCEPT ![s] = @ + 1]
            /\ permits' = sem.permits
            /\ waitQueue' = sem.waitQueue
            /\ acquired' = [t \in Slots |-> acquired[t] \/ t \in sem.granted]
            /\ timer' = [t \in Slots |->
                           IF t \in sem.granted THEN "armed" ELSE tm[t]]
            /\ startCmd' = [t \in Slots |->
                              IF t \in sem.granted THEN "issued" ELSE sc[t]]
            /\ phase' = IF \A t \in Slots : settled[t] # "pending"
                          THEN "returned" ELSE phase

\* the for loop of executeRooTasks over n queries with a fresh Semaphore(N),
\* the .then callbacks of the acquires that resolved at once, and
\* Promise.allSettled of an empty list
Launch_StartsAll(n, N) ==
  LET sem == AcquireAll([permits |-> N, waitQueue |-> <<>>, granted |-> {}],
                        1, n)
  IN /\ permits' = sem.permits
     /\ waitQueue' = sem.waitQueue
     /\ acquired' = [s \in 1..n |-> s \in sem.granted]
     /\ timer' = [s \in 1..n |-> "armed"]
     /\ startCmd' = [s \in 1..n |-> "issued"]
     /\ phase' = IF n = 0 THEN "returned" ELSE "running"

Launch_TimerAtSubmission(n, N) ==
  LET sem == AcquireAll([permits |-> N, waitQueue |-> <<>>, granted |-> {}],
                        1, n)
  IN /\ permits' = sem.permits
     /\ waitQueue' = sem.waitQueue
     /\ acquired' = [s \in 1..n |-> s \in sem.granted]
     /\ timer' = [s \in 1..n |-> "armed"]
     /\ startCmd' = [s \in 1..n |->
                       IF s \in sem.granted THEN "issued" ELSE "none"]
     /\ phase' = IF n = 0 THEN "returned" ELSE "running"

Launch(n, N) ==
  LET sem == AcquireAll([permits |-> N, waitQueue |-> <<>>, granted |-> {}],
                        1, n)
  IN /\ permits' = sem.permits
     /\ waitQueue' = sem.waitQueue
     /\ acquired' = [s \in 1..n |-> s \in sem.granted]
     /\ timer' = [s \in 1..n |-> IF s \in sem.granted THEN "armed" ELSE "unset"]
     /\ startCmd' = [s \in 1..n |->
                       IF s \in sem.granted THEN "issued" ELSE "none"]
     /\ phase' = IF n = 0 THEN "returned" ELSE "running"

\* ------------------------------------------------- the IPC server and client
Conns == 1..MaxConnections

\* an IpcMessage: its type discriminator, its origin and its payload
IpcMessage(type, origin, data) ==
  [type |-> type, origin |-> origin, data |-> data]

NotJson == "<not json>"   \* stands for text that JSON.parse rejects
FutureType == "Future"    \* a type discriminator no receiver knows

\* the Ack of handleConnection; of its data only clientId is kept
Ack(clientId) == IpcMessage("Ack", "server", clientId)

\* what is written to a socket besides the Ack: the server broadcasts
\* TaskEvents and messages of later protocol versions, a client writes
\* TaskCommands, such messages, and text that is no JSON at all
BroadcastTypes == {"TaskEvent", FutureType}
ClientLineTypes == {"TaskCommand", FutureType, NotJson}

\* generateClientId(): the k-th id handed out
generateClientId(k) == "client-" \o ToString(k)

\* JSON.stringify(message) + "\n" as bytes on the wire: two pieces, so that a
\* read can end inside the line
Stringify(m) == <<[msg |-> m, piece |-> 1], [msg |-> m, piece |-> 2]>>

\* JSON.parse(data.trim()) of the bytes of one read: <<message>>, or <<>> when
\* it throws (the read is not exactly one complete line of JSON)
JSONParse(data) ==
  IF /\ Len(data) = 2
     /\ data[1].piece = 1
     /\ data[2].piece = 2
     /\ data[1].msg.type # NotJson
    THEN <<data[1].msg>>
    ELSE <<>>

\* socket.write(bytes)
Write(wire, bytes) == [wire EXCEPT !.bytes = @ \o bytes]

\* the bytes of the next "data" event when it carries k pieces
NextRead(wire, k) == SubSeq(wire.bytes, wire.read + 1, wire.read + k)

Unread(wire) == Len(wire.bytes) - wire.read

\* the sockets in MyIpcServer.clients
Registered == {clients[id] : id \in DOMAIN clients}

IpcInit ==
  /\ clients = <<>>
  /\ socket = [c \in Conns |-> [state |-> "none", clientId |-> ""]]
  /\ toClient = [c \in Conns |-> [bytes |-> <<>>, read |-> 0]]
  /\ toServer = [c \in Conns |-> [bytes |-> <<>>, read |-> 0]]
  /\ emitted = <<>>
  /\ taskEvents = [c \in Conns |-> <<>>]
  /\ clientIds = 0
  /\ broadcasts = 0

\* what handleConnection writes to the new socket
ConnectionGreeting_None(clientId) == <<>>

ConnectionGreeting(clientId) == Stringify(Ack(clientId))

\* net.Server accepts socket c: handleConnection(socket)
handleConnection(c) ==
  /\ c \in Conns
  /\ socket[c].state = "none"
  /\ \A d \in Conns : d < c => socket[d].state # "none"
  /\ LET clientId == generateClientId(clientIds + 1) IN
     /\ clientIds' = clientIds + 1
     /\ clients' = SetEntry(clients, clientId, c)
     /\ toClient' = [toClient EXCEPT
                       ![c] = Write(@, ConnectionGreeting(clientId))]
     /\ emitted' = Append(emitted, [event |-> "Connect",
                                    clientId |-> clientId, data |-> ""])
     /\ socket' = [socket EXCEPT ![c] = [state |-> "open",
                                         clientId |-> clientId]]
  /\ UNCHANGED <<toServer, taskEvents, broadcasts, taskVars, sseVars>>

\* broadcast(message), the message being the n-th one broadcast
broadcast(type) ==
  /\ broadcasts < MaxBroadcasts
  /\ broadcasts' = broadcasts + 1
  /\ LET message == IpcMessage(type, "server", ToString(broadcasts + 1)) IN
     toClient' = [c \in Conns |->
                    IF c \in Registered
                      THEN Write(toClient[c], Stringify(message))
                      ELSE toClient[c]]
  /\ UNCHANGED <<clients, socket, toServer, emitted, taskEvents, clientIds,
                 taskVars, sseVars>>

RECURSIVE SumLines(_)
SumLines(c) ==
  IF c = 0 THEN 0 ELSE Len(toServer[c].bytes) \div 2 + SumLines(c - 1)

\* lines written by all clients so far
LinesWritten == SumLines(MaxConnections)

\* the peer of socket c writes a line, the n-th of the socket
\* (RooCodeIpcClient.sendMessage, or any other process on the socket)
sendMessage(c, type) ==
  /\ c \in Conns
  /\ socket[c].state = "open"
  /\ LinesWritten < MaxLines
  /\ LET n == Len(toServer[c].bytes) \div 2 + 1
         message == IpcMessage(type, "client", ToString(n)) IN
     toServer' = [toServer EXCEPT ![c] = Write(@, Stringify(message))]
  /\ UNCHANGED <<clients, socket, toClient, emitted, taskEvents, clientIds,
                 broadcasts, taskVars, sseVars>>

\* the events MyIpcServer emits for one read
ServerEmits_AnyType(clientId, data) ==
  LET parsed == JSONParse(data) IN
  IF parsed # <<>>
    THEN <<[event |-> "TaskCommand", clientId |-> clientId,
            data |-> parsed[1].data]>>
    ELSE <<>>

ServerEmits(clientId, data) ==
  LET parsed == JSONParse(data) IN
  IF parsed # <<>> /\ parsed[1].type = "TaskCommand"
    THEN <<[event |-> "TaskCommand", clientId |-> clientId,
            data |-> parsed[1].data]>>
    ELSE <<>>

\* socket.on("data") of the server with a read of k pieces:
\* handleClientMessage(clientId, data.toString())
handleClientMessage_ClosesOnError(c, k) ==
  /\ c \in Conns
  /\ socket[c].state = "open"
  /\ k \in 1..Unread(toServer[c])
  /\ emitted' = emitted \o ServerEmits(socket[c].clientId,
                                       NextRead(toServer[c], k))
  /\ toServer' = [toServer EXCEPT ![c].read = @ + k]
  /\ socket' = IF JSONParse(NextRead(toServer[c], k)) = <<>>
                 THEN [socket EXCEPT ![c].state = "closed"] ELSE socket
  /\ UNCHANGED <<clients, toClient, taskEvents, clientIds, broadcasts,
                 taskVars, sseVars>>

handleClientMessage(c, k) ==
  /\ c \in Conns
  /\ socket[c].state = "open"
  /\ k \in 1..Unread(toServer[c])
  /\ emitted' = emitted \o ServerEmits(socket[c].clientId,
                                       NextRead(toServer[c], k))
  /\ toServer' = [toServer EXCEPT ![c].read = @ + k]
  /\ UNCHANGED <<clients, socket, toClient, taskEvents, clientIds,
                 broadcasts, taskVars, sseVars>>

\* the "taskEvent"s RooCodeIpcClient emits for one read
ClientEmits(data) ==
  LET parsed == JSONParse(data) IN
  IF parsed # <<>> /\ parsed[1].type = "TaskEvent"
    THEN <<parsed[1].data>>
    ELSE <<>>

\* socket.on("data") of the client with a read of k pieces:
\* handleMessage(data.toString())
handleMessage(c, k) ==
  /\ c \in Conns
  /\ socket[c].state # "none"
  /\ k \in 1..Unread(toClient[c])
  /\ taskEvents' = [taskEvents EXCEPT
                      ![c] = @ \o ClientEmits(NextRead(toClient[c], k))]
  /\ toClient' = [toClient EXCEPT ![c].read = @ + k]
  /\ UNCHANGED <<clients, socket, toServer, emitted, clientIds, broadcasts,
                 taskVars, sseVars>>

\* socket.on("close") of the server
socketClose(c) ==
  /\ c \in Conns
  /\ socket[c].state = "open"
  /\ socket' = [socket EXCEPT ![c].state = "closed"]
  /\ clients' = [id \in DOMAIN clients \ {socket[c].clientId} |-> clients[id]]
  /\ emitted' = Append(emitted, [event |-> "Disconnect",
                                 clientId |-> socket[c].clientId,
                                 data |-> ""])
  /\ UNCHANGED <<toClient, toServer, taskEvents, clientIds, broadcasts,
                 taskVars, sseVars>>

IpcNext ==
  \/ \E c \in Conns : handleConnection(c)
  \/ \E type \in BroadcastTypes : broadcast(type)
  \/ \E c \in Conns, type \in ClientLineTypes : sendMessage(c, type)
  \/ \E c \in Conns, k \in 1..(2 * MaxLines) : handleClientMessage(c, k)
  \/ \E c \in Conns, k \in 1..(2 * MaxBroadcasts + 2) : handleMessage(c, k)
  \/ \E c \in Conns : socketClose(c)

\* ------------------------------------------- the demo workflow (SSE stream)
\* one output frame; detail is what the diagram writes in parentheses
Frame(kind, detail) == [kind |-> kind, detail |-> detail]

SseInit ==
  /\ sseStep = "start"
  /\ sseConn = "none"
  /\ sseStream = <<>>
  /\ sseIter = 0
  /\ sseClosed = <<>>

\* Maestro->>Client: SSE: ... on the connection of the current request
Emit(frame) ==
  /\ sseConn = "open"
  /\ sseStream' = Append(sseStream, frame)
  /\ UNCHANGED <<sseConn, sseClosed>>

\* a client request that is answered with an event stream
OpenStream ==
  /\ sseConn' = "open"
  /\ sseStream' = <<>>
  /\ sseIter' = 0
  /\ UNCHANGED sseClosed

\* Client->>Maestro: POST /roo/task; Maestro->>AIAgent: Start new task
PostRooTask ==
  /\ sseStep = "start"
  /\ OpenStream
  /\ sseStep' = "new"
  /\ UNCHANGED <<taskVars, ipcVars>>

\* Maestro->>Client: SSE: TASK_CREATED
SseTaskCreated ==
  /\ sseStep = "new"
  /\ Emit(Frame("TASK_CREATED", ""))
  /\ sseStep' = "created"
  /\ UNCHANGED <<sseIter, taskVars, ipcVars>>

\* first loop: Generate response chunk; SSE: MESSAGE (partial)
SseMessagePartial ==
  /\ \/ sseStep = "created"
     \/ sseStep = "followup" /\ sseIter < MaxLoop
  /\ Emit(Frame("MESSAGE", "partial"))
  /\ sseStep' = "partial"
  /\ UNCHANGED <<sseIter, taskVars, ipcVars>>

\* first loop: Ask follow-up question; SSE: MESSAGE (followup)
SseMessageFollowup ==
  /\ sseStep = "partial"
  /\ Emit(Frame("MESSAGE", "followup"))
  /\ sseStep' = "followup"
  /\ sseIter' = sseIter + 1
  /\ UNCHANGED <<taskVars, ipcVars>>

\* the step that ends the stream without sending a closing frame
SseStreamClosed_Silent(reason) ==
  /\ \/ reason = "followup_question" /\ sseStep = "followup"
     \/ reason = "task_completed" /\ sseStep = "completed"
  /\ sseStep' = IF reason = "task_completed" THEN "finishing" ELSE "pausing"
  /\ UNCHANGED <<sseConn, sseStream, sseClosed, sseIter, taskVars, ipcVars>>

\* Maestro->>Client: SSE: STREAM_CLOSED (followup_question) after the first
\* loop, SSE: STREAM_CLOSED (task_completed) after TASK_COMPLETED
SseStreamClosed(reason) ==
  /\ \/ reason = "followup_question" /\ sseStep = "followup"
     \/ reason = "task_completed" /\ sseStep = "completed"
  /\ Emit(Frame("STREAM_CLOSED", reason))
  /\ sseStep' = IF reason = "task_completed" THEN "finishing" ELSE "pausing"
  /\ UNCHANGED <<sseIter, taskVars, ipcVars>>

\* Note over Client,Maestro: Connection closed
ConnectionClosed ==
  /\ sseStep \in {"pausing", "finishing"}
  /\ sseConn = "open"
  /\ sseConn' = "closed"
  /\ sseClosed' = Append(sseClosed, sseStream)
  /\ sseStep' = IF sseStep = "finishing" THEN "done" ELSE "paused"
  /\ UNCHANGED <<sseStream, sseIter, taskVars, ipcVars>>

\* Client->>Maestro: POST /roo/task/{id}/message; Check task in history,
\* Resume task if needed, Send message
PostMessage ==
  /\ sseStep = "paused"
  /\ OpenStream
  /\ sseStep' = "resuming"
  /\ UNCHANGED <<taskVars, ipcVars>>

\* Maestro->>Client: SSE: TASK_RESUMED
SseTaskResumed ==
  /\ sseStep = "resuming"
  /\ Emit(Frame("TASK_RESUMED", ""))
  /\ sseStep' = "resumed"
  /\ UNCHANGED <<sseIter, taskVars, ipcVars>>

\* second loop: Generate response chunk; SSE: MESSAGE
SseMessageChunk ==
  /\ \/ sseStep = "resumed"
     \/ sseStep = "toolRequested" /\ sseIter < MaxLoop
  /\ Emit(Frame("MESSAGE", ""))
  /\ sseStep' = "chunk"
  /\ UNCHANGED <<sseIter, taskVars, ipcVars>>

\* second loop: Request MCP tool usage; SSE: MESSAGE (use_mcp_server)
SseMessageUseMcpServer ==
  /\ sseStep = "chunk"
  /\ Emit(Frame("MESSAGE", "use_mcp_server"))
  /\ sseStep' = "toolRequested"
  /\ sseIter' = sseIter + 1
  /\ UNCHANGED <<taskVars, ipcVars>>

\* Client->>Maestro: POST /roo/task/{id}/action (approve); Click Approve
\* button, Execute tool, Tool result. The diagram shows neither a closed
\* connection before it nor an opening frame after it: the frames that
\* follow go to the stream of the message request
PostAction ==
  /\ sseStep = "toolRequested"
  /\ sseStep' = "toolRan"
  /\ sseIter' = 0
  /\ UNCHANGED <<sseConn, sseStream, sseClosed, taskVars, ipcVars>>

\* alt Tool execution successful: loop Process tool result; SSE: MESSAGE
SseToolMessage ==
  /\ \/ sseStep = "toolRan"
     \/ sseStep = "toolMessage" /\ sseIter < MaxLoop
  /\ Emit(Frame("MESSAGE", ""))
  /\ sseStep' = "toolMessage"
  /\ sseIter' = sseIter + 1
  /\ UNCHANGED <<taskVars, ipcVars>>

\* else Tool execution failed: SSE: TOOL_FAILED (with error)
SseToolFailed ==
  /\ sseStep = "toolRan"
  /\ Emit(Frame("TOOL_FAILED", "with error"))
  /\ sseStep' = "toolFailed"
  /\ UNCHANGED <<sseIter, taskVars, ipcVars>>

\* Task Completion loop: Continue response chunk; SSE: MESSAGE
SseCompletionMessage ==
  /\ \/ /\ sseStep \in {"toolMessage", "toolFailed"}
        /\ sseIter' = 1
     \/ /\ sseStep = "completing"
        /\ sseIter < MaxLoop
        /\ sseIter' = sseIter + 1
  /\ Emit(Frame("MESSAGE", ""))
  /\ sseStep' = "completing"
  /\ UNCHANGED <<taskVars, ipcVars>>

\* AIAgent->>Maestro: Task completion; SSE: TASK_COMPLETED (with usage stats)
SseTaskCompleted ==
  /\ sseStep = "completing"
  /\ Emit(Frame("TASK_COMPLETED", "with usage stats"))
  /\ sseStep' = "completed"
  /\ UNCHANGED <<sseIter, taskVars, ipcVars>>

SseNext ==
  \/ PostRooTask
  \/ SseTaskCreated
  \/ SseMessagePartial
  \/ SseMessageFollowup
  \/ \E reason \in {"followup_question", "task_completed"} :
        SseStreamClosed(reason)
  \/ ConnectionClosed
  \/ PostMessage
  \/ SseTaskResumed
  \/ SseMessageChunk
  \/ SseMessageUseMcpServer
  \/ PostAction
  \/ SseToolMessage
  \/ SseToolFailed
  \/ SseCompletionMessage
  \/ SseTaskCompleted


\* ------------------------------------------------------------------- Init
Init ==
  /\ isInitialized = FALSE
  /\ initResult = "none"
  /\ phase = "idle"
  /\ taskQueries = <<>>
  /\ maxConcurrency = 0
  /\ streamContent = FALSE
  /\ permits = 0
  /\ waitQueue = <<>>
  /\ run = <<>>
  /\ runKeys = <<>>
  /\ taskId = <<>>
  /\ timer = <<>>
  /\ promise = <<>>
  /\ startCmd = <<>>
  /\ acquired = <<>>
  /\ released = <<>>
  /\ awaiting = <<>>
  /\ tempIds = 0
  /\ events = 0
  /\ lastSummary = [title |-> "", note |-> "", sections |-> <<>>]
  /\ IpcInit
  /\ SseInit

\* ------------------------------------------------- initialize, the entry call
\* initialize() with rooAdapter.isActive = isActive: returns with a warning
\* if the manager is initialized, throws if the adapter is not active, else
\* sets the flag
initialize_RechecksAdapter(isActive) ==
  /\ IF ~isActive
       THEN /\ initResult' = "rejected: RooCode adapter is not available"
            /\ isInitialized' = FALSE
       ELSE /\ initResult' = "resolved"
            /\ isInitialized' = TRUE
  /\ UNCHANGED <<phase, taskQueries, maxConcurrency, streamContent, permits,
                 waitQueue, run, runKeys, taskId, timer, promise, startCmd,
                 acquired, released, awaiting, tempIds, events, lastSummary>>

initialize(isActive) ==
  /\ IF isInitialized
       THEN /\ initResult' = "resolved: already initialized"
            /\ UNCHANGED isInitialized
       ELSE IF ~isActive
         THEN /\ initResult' = "rejected: RooCode adapter is not available"
              /\ UNCHANGED isInitialized
         ELSE /\ initResult' = "resolved"
              /\ isInitialized' = TRUE
  /\ UNCHANGED <<phase, taskQueries, maxConcurrency, streamContent, permits,
                 waitQueue, run, runKeys, taskId, timer, promise, startCmd,
                 acquired, released, awaiting, tempIds, events, lastSummary>>

\* dispose(): only clears the flag; a call in progress, its timers and its
\* handlers are left alone
dispose ==
  /\ isInitialized
  /\ isInitialized' = FALSE
  /\ UNCHANGED <<initResult, phase, taskQueries, maxConcurrency, streamContent, permits,
                 waitQueue, run, runKeys, taskId, timer, promise, startCmd,
                 acquired, released, awaiting, tempIds, events, lastSummary>>

\* the guard at the head of executeRooTasks: if (!this.isInitialized) throw
NotInitialized_Never == FALSE

NotInitialized == ~isInitialized

\* executeRooTasks(taskQueries, {maxConcurrency: N, streamContent}) up to its
\* first suspension: the await of the initial streamContent if one is
\* supplied, else the await of Promise.allSettled
executeRooTasks(n, N, withStream) ==
  /\ phase = "idle"
  /\ IF NotInitialized
       THEN /\ phase' = "rejected"
            /\ UNCHANGED <<taskQueries, maxConcurrency, streamContent, permits,
                           waitQueue, run, runKeys, taskId, timer, promise,
                           startCmd, acquired, released, awaiting, lastSummary>>
       ELSE /\ taskQueries' = [i \in 1..n |-> i]
            /\ maxConcurrency' = N
            /\ streamContent' = withStream
            /\ run' = <<>>
            /\ runKeys' = <<>>
            /\ taskId' = [s \in 1..n |-> NoId]
            /\ promise' = [s \in 1..n |-> "pending"]
            /\ released' = [s \in 1..n |-> 0]
            /\ awaiting' = [s \in 1..n |-> 0]
            /\ IF withStream
                 THEN /\ lastSummary' = summarizeRun(<<>>, <<>>)
                      /\ phase' = "initial"
                      /\ permits' = 0
                      /\ waitQueue' = <<>>
                      /\ acquired' = [s \in 1..n |-> FALSE]
                      /\ timer' = [s \in 1..n |-> "unset"]
                      /\ startCmd' = [s \in 1..n |-> "none"]
                 ELSE /\ lastSummary' = lastSummary
                      /\ Launch(n, N)
  /\ UNCHANGED <<isInitialized, initResult, tempIds, events>>

\* the initial await streamContent(...) with its rejection swallowed
InitialStreamSettles_Swallows(ok) ==
  /\ phase = "initial"
  /\ Launch(Len(taskQueries), maxConcurrency)
  /\ UNCHANGED <<isInitialized, initResult, taskQueries, maxConcurrency,
                 streamContent, run, runKeys, taskId, promise, released,
                 awaiting, tempIds, events, lastSummary>>

\* the initial await streamContent(...) of executeRooTasks settles
InitialStreamSettles(ok) ==
  /\ phase = "initial"
  /\ IF ok
       THEN Launch(Len(taskQueries), maxConcurrency)
       ELSE /\ phase' = "rejected"
            /\ UNCHANGED <<permits, waitQueue, acquired, timer, startCmd>>
  /\ UNCHANGED <<isInitialized, initResult, taskQueries, maxConcurrency, streamContent,
                 run, runKeys, taskId, promise, released, awaiting, tempIds,
                 events, lastSummary>>

\* --------------------------------------------------------- event handlers
\* the runtime may call the handlers of a task once startNewTask received
\* them, also after the task's promise settled and after executeRooTasks
\* returned (the handlers are never unregistered)
RuntimeMayCall(s) ==
  /\ phase \in {"running", "returned"}
  /\ s \in Slots
  /\ startCmd[s] = "issued"

\* the cap on the runtime callbacks of one run
Budget == events < MaxEvents

\* the shape all six handlers share: [clearTimeout;] if the guard on run
\* passed, write the entry and, with a streamContent, call it with the new
\* summary and suspend; [resolve() once past the await]
Handle(s, name, id, wrote, run2, keys2, tid2, terminal) ==
  LET streams == wrote /\ streamContent
      tm == IF terminal THEN [timer EXCEPT ![s] = clearTimeout(@)] ELSE timer
  IN /\ RuntimeMayCall(s)
     /\ (streams /\ terminal) => awaiting[s] < MaxInflight
     /\ events' = events + 1
     /\ run' = run2
     /\ runKeys' = keys2
     /\ taskId' = [taskId EXCEPT ![s] = tid2]
     /\ lastSummary' = StreamContentCall(wrote, run2, keys2)
     /\ IF streams
          THEN /\ awaiting' = [awaiting EXCEPT ![s] =
                                   IF terminal THEN @ + 1 ELSE @]
               /\ timer' = tm
               /\ UNCHANGED <<promise, released, permits, waitQueue, acquired,
                              startCmd, phase>>
          ELSE /\ awaiting' = awaiting
               /\ IF terminal
                    THEN SettleTask(s, "resolved", tm, startCmd)
                    ELSE /\ timer' = tm
                         /\ UNCHANGED <<promise, released, permits, waitQueue,
                                        acquired, startCmd, phase>>
     /\ UNCHANGED <<isInitialized, initResult, taskQueries, maxConcurrency, streamContent,
                    tempIds>>

onTaskCreated_Running(s, id) ==
  Handle(s, "onTaskCreated", id, TRUE,
         SetEntry(run, id, [task |-> taskQueries[s], status |-> "running",
                            result |-> CreatedResult]),
         AddKey(run, runKeys, id), id, FALSE)

onTaskCreated(s, id) ==
  Handle(s, "onTaskCreated", id, TRUE,
         SetEntry(run, id, [task |-> taskQueries[s], status |-> "created",
                            result |-> CreatedResult]),
         AddKey(run, runKeys, id), id, FALSE)

\* onTaskStarted without the if (run[id]) guard
onTaskStarted_Unguarded(s, id) ==
  Handle(s, "onTaskStarted", id, TRUE,
         SetEntry(run, id, [task |-> taskQueries[s], status |-> "running",
                            result |-> StartedResult]),
         AddKey(run, runKeys, id), taskId[s], FALSE)

onTaskStarted(s, id) ==
  Handle(s, "onTaskStarted", id, id \in DOMAIN run,
         IF id \in DOMAIN run
           THEN [run EXCEPT ![id].status = "running",
                            ![id].result = StartedResult]
           ELSE run,
         runKeys, taskId[s], FALSE)

onMessage_SetsRunning(s, id, message) ==
  Handle(s, "onMessage", id, id \in DOMAIN run,
         IF id \in DOMAIN run
           THEN [run EXCEPT ![id].status = "running",
                            ![id].result = JSONStringify(message)]
           ELSE run,
         runKeys, taskId[s], FALSE)

\* onMessage treated as an event that ends the task
onMessage_EndsTask(s, id, message) ==
  Handle(s, "onMessage", id, id \in DOMAIN run,
         IF id \in DOMAIN run
           THEN [run EXCEPT ![id].result = JSONStringify(message)]
           ELSE run,
         runKeys, taskId[s], TRUE)

onMessage(s, id, message) ==
  Handle(s, "onMessage", id, id \in DOMAIN run,
         IF id \in DOMAIN run
           THEN [run EXCEPT ![id].result = JSONStringify(message)]
           ELSE run,
         runKeys, taskId[s], FALSE)

onTaskCompleted_Cancels(s, id) ==
  Handle(s, "onTaskCompleted", id, id \in DOMAIN run,
         IF id \in DOMAIN run
           THEN [run EXCEPT ![id].status = "cancelled"]
           ELSE run,
         runKeys, taskId[s], TRUE)

\* onTaskCompleted writing the fixed text whatever the result was
onTaskCompleted_Overwrites(s, id) ==
  Handle(s, "onTaskCompleted", id, id \in DOMAIN run,
         IF id \in DOMAIN run
           THEN [run EXCEPT ![id].status = "completed",
                            ![id].result = CompletedResult]
           ELSE run,
         runKeys, taskId[s], TRUE)

onTaskCompleted(s, id) ==
  Handle(s, "onTaskCompleted", id, id \in DOMAIN run,
         IF id \in DOMAIN run
           THEN [run EXCEPT ![id].status = "completed",
                            ![id].result =
                               IF Falsy(@) \/ @ = StartedResult
                                 THEN CompletedResult ELSE @]
           ELSE run,
         runKeys, taskId[s], TRUE)

onTaskAborted(s, id) ==
  Handle(s, "onTaskAborted", id, id \in DOMAIN run,
         IF id \in DOMAIN run
           THEN [run EXCEPT ![id].status = "cancelled",
                            ![id].result = CancelledResult]
           ELSE run,
         runKeys, taskId[s], TRUE)

onTaskToolFailed(s, id, tool, error) ==
  Handle(s, "onTaskToolFailed", id, id \in DOMAIN run,
         IF id \in DOMAIN run
           THEN [run EXCEPT ![id].status = "failed",
                            ![id].result = ToolFailedResult(tool, error)]
           ELSE run,
         runKeys, taskId[s], TRUE)

\* the await streamContent(...) of a suspended terminal handler settles:
\* fulfilled, the handler runs on to resolve(); rejected, the handler's own
\* promise rejects and resolve() is skipped.  (Nothing follows the await in
\* onTaskCreated, onTaskStarted and onMessage, so their suspensions carry no
\* state.)
StreamContentSettles(s, ok) ==
  /\ s \in Slots
  /\ awaiting[s] > 0
  /\ awaiting' = [awaiting EXCEPT ![s] = @ - 1]
  /\ IF ok
       THEN SettleTask(s, "resolved", timer, startCmd)
       ELSE UNCHANGED <<promise, released, permits, waitQueue, acquired,
                        timer, startCmd, phase>>
  /\ UNCHANGED <<isInitialized, initResult, taskQueries, maxConcurrency, streamContent,
                 run, runKeys, taskId, tempIds, events, lastSummary>>

\* ------------------------------------------------ timeout and start failure
\* if (taskId && run[taskId])
TimeoutFinds(s) == taskId[s] # NoId /\ taskId[s] \in DOMAIN run

\* the registry as the setTimeout callback leaves it
TimeoutRun_NoWrite(s) == run

TimeoutRun_Cancels(s) ==
  IF TimeoutFinds(s)
    THEN [run EXCEPT ![taskId[s]].status = "cancelled",
                     ![taskId[s]].result = TimeoutResult]
    ELSE run

TimeoutRun(s) ==
  IF TimeoutFinds(s)
    THEN [run EXCEPT ![taskId[s]].status = "failed",
                     ![taskId[s]].result = TimeoutResult]
    ELSE run

\* the setTimeout callback of executeTask
Timeout(s) ==
  /\ s \in Slots
  /\ timer[s] = "armed"
  /\ LET found == TimeoutFinds(s)
         run2 == TimeoutRun(s)
     IN /\ run' = run2
        /\ lastSummary' = StreamContentCall(found, run2, runKeys)
  /\ SettleTask(s, "rejected: Task timeout",
                [timer EXCEPT ![s] = "fired"], startCmd)
  /\ UNCHANGED <<isInitialized, initResult, taskQueries, maxConcurrency, streamContent,
                 runKeys, taskId, awaiting, tempIds, events>>

\* the timers once the .catch callback has run its clearTimeout(timeoutId)
CatchTimer_NoClear(s) == timer

CatchTimer(s) == [timer EXCEPT ![s] = clearTimeout(@)]

\* the .catch callback on rooAdapter.startNewTask(...)
StartNewTaskRejects(s, error) ==
  /\ s \in Slots
  /\ startCmd[s] = "issued"
  /\ LET tempTaskId == TempTaskId(tempIds + 1)
         run2 == SetEntry(run, tempTaskId,
                          [task |-> taskQueries[s], status |-> "failed",
                           result |-> StartFailedResult(error)])
         keys2 == AddKey(run, runKeys, tempTaskId)
     IN /\ tempIds' = tempIds + 1
        /\ run' = run2
        /\ runKeys' = keys2
        /\ lastSummary' = StreamContentCall(TRUE, run2, keys2)
  /\ SettleTask(s, "rejected: start error", CatchTimer(s),
                [startCmd EXCEPT ![s] = "rejected"])
  /\ UNCHANGED <<isInitialized, initResult, taskQueries, maxConcurrency, streamContent,
                 taskId, awaiting, events>>

\* the initialize() calls of Spec and OrderlySpec are those that set the
\* flag; the calls that throw or return early are left to LifecycleSpec
SetsFlag(isActive) == ~isInitialized /\ isActive

\* ------------------------------------------------------------------- Next
Next ==
  \/ /\ \E isActive \in BOOLEAN : SetsFlag(isActive) /\ initialize(isActive)
     /\ UNCHANGED <<ipcVars, sseVars>>
  \/ /\ dispose
     /\ UNCHANGED <<ipcVars, sseVars>>
  \/ /\ \E n \in 0..MaxQueries, N \in 0..MaxConcurrencyOpt, w \in BOOLEAN :
            executeRooTasks(n, N, w)
     /\ UNCHANGED <<ipcVars, sseVars>>
  \/ /\ \E ok \in BOOLEAN : InitialStreamSettles(ok)
     /\ UNCHANGED <<ipcVars, sseVars>>
  \/ /\ \E s \in SlotIds, id \in TaskIds : Budget /\ onTaskCreated(s, id)
     /\ UNCHANGED <<ipcVars, sseVars>>
  \/ /\ \E s \in SlotIds, id \in TaskIds : Budget /\ onTaskStarted(s, id)
     /\ UNCHANGED <<ipcVars, sseVars>>
  \/ /\ \E s \in SlotIds, id \in TaskIds, m \in Messages :
            Budget /\ onMessage(s, id, m)
     /\ UNCHANGED <<ipcVars, sseVars>>
  \/ /\ \E s \in SlotIds, id \in TaskIds : Budget /\ onTaskCompleted(s, id)
     /\ UNCHANGED <<ipcVars, sseVars>>
  \/ /\ \E s \in SlotIds, id \in TaskIds : Budget /\ onTaskAborted(s, id)
     /\ UNCHANGED <<ipcVars, sseVars>>
  \/ /\ \E s \in SlotIds, id \in TaskIds, tool \in Tools, error \in Errors :
            Budget /\ onTaskToolFailed(s, id, tool, error)
     /\ UNCHANGED <<ipcVars, sseVars>>
  \/ /\ \E s \in SlotIds, ok \in BOOLEAN : StreamContentSettles(s, ok)
     /\ UNCHANGED <<ipcVars, sseVars>>
  \/ /\ \E s \in SlotIds : Timeout(s)
     /\ UNCHANGED <<ipcVars, sseVars>>
  \/ /\ \E s \in SlotIds, error \in Errors : StartNewTaskRejects(s, error)
     /\ UNCHANGED <<ipcVars, sseVars>>

Spec == Init /\ [][Next]_vars

SseSpec == Init /\ [][SseNext]_vars

\* the IPC server with its clients, the task manager idle
IpcSpec == Init /\ [][IpcNext]_vars

\* ------------------------------------------------ a well-behaved runtime
\* executeRooTasks against a runtime that accepts every start command, gives
\* the task of the s-th query an id of its own and calls onTaskCreated,
\* onTaskStarted and onTaskCompleted for it, in this order and once each; the
\* timers and the streamContent callback behave as in Spec
OwnId(s) == "t" \o ToString(s)

taskCreated(s) ==
  /\ s \in Slots
  /\ taskId[s] = NoId
  /\ OwnId(s) \notin DOMAIN run
  /\ onTaskCreated(s, OwnId(s))

taskStarted(s) ==
  /\ s \in Slots
  /\ taskId[s] = OwnId(s)
  /\ run[OwnId(s)].status = "created"
  /\ onTaskStarted(s, OwnId(s))

taskCompleted(s) ==
  /\ s \in Slots
  /\ taskId[s] = OwnId(s)
  /\ run[OwnId(s)].status = "running"
  /\ onTaskCompleted(s, OwnId(s))

OrderlyNext ==
  \/ /\ \E isActive \in BOOLEAN : SetsFlag(isActive) /\ initialize(isActive)
     /\ UNCHANGED <<ipcVars, sseVars>>
  \/ /\ \E n \in 0..MaxQueries, N \in 0..MaxConcurrencyOpt, w \in BOOLEAN :
            executeRooTasks(n, N, w)
     /\ UNCHANGED <<ipcVars, sseVars>>
  \/ /\ \E ok \in BOOLEAN : InitialStreamSettles(ok)
     /\ UNCHANGED <<ipcVars, sseVars>>
  \/ /\ \E s \in SlotIds : taskCreated(s)
     /\ UNCHANGED <<ipcVars, sseVars>>
  \/ /\ \E s \in SlotIds : taskStarted(s)
     /\ UNCHANGED <<ipcVars, sseVars>>
  \/ /\ \E s \in SlotIds : taskCompleted(s)
     /\ UNCHANGED <<ipcVars, sseVars>>
  \/ /\ \E s \in SlotIds, ok \in BOOLEAN : StreamContentSettles(s, ok)
     /\ UNCHANGED <<ipcVars, sseVars>>
  \/ /\ \E s \in SlotIds : Timeout(s)
     /\ UNCHANGED <<ipcVars, sseVars>>

OrderlySpec == Init /\ [][OrderlyNext]_vars

\* the orderly runtime with what the event loop guarantees: an armed timer
\* fires, and a streamContent call that is awaited settles, one way or the
\* other; the runtime itself owes nothing
TimerFires(s) == Timeout(s) /\ UNCHANGED <<ipcVars, sseVars>>

CallbackSettles(s) ==
  /\ \E ok \in BOOLEAN : StreamContentSettles(s, ok)
  /\ UNCHANGED <<ipcVars, sseVars>>

InitialCallbackSettles ==
  /\ \E ok \in BOOLEAN : InitialStreamSettles(ok)
  /\ UNCHANGED <<ipcVars, sseVars>>

FairOrderlySpec ==
  /\ OrderlySpec
  /\ \A s \in SlotIds : WF_vars(TimerFires(s))
  /\ \A s \in SlotIds : WF_vars(CallbackSettles(s))
  /\ WF_vars(InitialCallbackSettles)

\* initialize() and dispose() called at any time, around a run against the
\* orderly runtime
LifecycleNext ==
  \/ /\ \E isActive \in BOOLEAN : initialize(isActive)
     /\ UNCHANGED <<ipcVars, sseVars>>
  \/ /\ dispose
     /\ UNCHANGED <<ipcVars, sseVars>>
  \/ /\ \E n \in 0..MaxQueries, N \in 0..MaxConcurrencyOpt, w \in BOOLEAN :
            executeRooTasks(n, N, w)
     /\ UNCHANGED <<ipcVars, sseVars>>
  \/ /\ \E ok \in BOOLEAN : InitialStreamSettles(ok)
     /\ UNCHANGED <<ipcVars, sseVars>>
  \/ /\ \E s \in SlotIds : taskCreated(s)
     /\ UNCHANGED <<ipcVars, sseVars>>
  \/ /\ \E s \in SlotIds : taskStarted(s)
     /\ UNCHANGED <<ipcVars, sseVars>>
  \/ /\ \E s \in SlotIds : taskCompleted(s)
     /\ UNCHANGED <<ipcVars, sseVars>>
  \/ /\ \E s \in SlotIds, ok \in BOOLEAN : StreamContentSettles(s, ok)
     /\ UNCHANGED <<ipcVars, sseVars>>

LifecycleSpec == Init /\ [][LifecycleNext]_vars

\* ------------------------------------------------- the Semaphore on its own
\* new Semaphore(N) used by callers that call acquire() one after the other,
\* in any interleaving with the release() calls of the callers that hold a
\* permit; a caller is named by the position of its acquire() call, and it
\* calls the release function it was handed at most once
otherVars == <<isInitialized, initResult, phase, taskQueries, streamContent, run, runKeys,
               taskId, timer, promise, startCmd, awaiting, tempIds, events,
               lastSummary, ipcVars, sseVars>>

SemInit ==
  /\ permits \in 0..MaxConcurrencyOpt
  /\ maxConcurrency = permits
  /\ waitQueue = <<>>
  /\ acquired = <<>>
  /\ released = <<>>
  /\ isInitialized = FALSE
  /\ initResult = "none"
  /\ phase = "idle"
  /\ taskQueries = <<>>
  /\ streamContent = FALSE
  /\ run = <<>>
  /\ runKeys = <<>>
  /\ taskId = <<>>
  /\ timer = <<>>
  /\ promise = <<>>
  /\ startCmd = <<>>
  /\ awaiting = <<>>
  /\ tempIds = 0
  /\ events = 0
  /\ lastSummary = [title |-> "", note |-> "", sections |-> <<>>]
  /\ IpcInit
  /\ SseInit

acquire ==
  /\ Len(acquired) < MaxCallers
  /\ LET c == Len(acquired) + 1
         sem == SemAcquire([permits |-> permits, waitQueue |-> waitQueue,
                            granted |-> {}], c) IN
     /\ permits' = sem.permits
     /\ waitQueue' = sem.waitQueue
     /\ acquired' = Append(acquired, c \in sem.granted)
     /\ released' = Append(released, 0)
  /\ UNCHANGED <<maxConcurrency, otherVars>>

release(c) ==
  /\ c \in DOMAIN acquired
  /\ acquired[c]
  /\ released[c] = 0
  /\ LET sem == SemRelease([permits |-> permits, waitQueue |-> waitQueue,
                            granted |-> {}]) IN
     /\ permits' = sem.permits
     /\ waitQueue' = sem.waitQueue
     /\ acquired' = [d \in DOMAIN acquired |->
                       acquired[d] \/ d \in sem.granted]
     /\ released' = [released EXCEPT ![c] = 1]
  /\ UNCHANGED <<maxConcurrency, otherVars>>

SemNext ==
  \/ acquire
  \/ \E c \in 1..MaxCallers : release(c)

SemSpec == SemInit /\ [][SemNext]_vars

\* ================================================================ properties
\* the executeTask invocations that hold a permit: acquired, not yet released
Holders == {s \in Slots : acquired[s] /\ released[s] = 0}

Terminal(id) == run[id].status \in TerminalStatus

\* a step in which the runtime called one of the six handlers
RuntimeEventStep == events' = events + 1

\* C1: with maxConcurrency = N >= 1, at most N executeTask invocations hold a
\* permit at any time and the semaphore's counter stays within 0..N; counter
\* and holders always add up to N.
C1_PermitBound ==
  (maxConcurrency >= 1 /\ phase \in {"running", "returned"}) =>
    /\ Cardinality(Holders) <= maxConcurrency
    /\ permits \in 0..maxConcurrency
    /\ permits + Cardinality(Holders) = maxConcurrency

\* C1 witness: the limit is reached with a query still queued behind it
C1_Witness ==
  /\ maxConcurrency = 1
  /\ Cardinality(Holders) = 1
  /\ permits = 0
  /\ Len(waitQueue) = 1
  /\ events > 0

\* C2: once a registry entry is terminal, no later runtime event changes its
\* status or its result (tool failure followed by completion stays failed).
C2_TerminalIsFinal ==
  [][RuntimeEventStep =>
       \A id \in DOMAIN run :
         Terminal(id) => /\ run'[id].status = run[id].status
                         /\ run'[id].result = run[id].result]_vars

\* C3: every permit acquired is released exactly once, on every way a task
\* can end: once the task's timer has been cancelled by a terminal event or
\* a start failure, or has fired, and no handler of the task is still
\* suspended, the permit has been released, and never twice.
C3_ReleasedExactlyOnce ==
  \A s \in Slots :
    /\ released[s] <= 1
    /\ (acquired[s] /\ timer[s] \in {"cleared", "fired"} /\ awaiting[s] = 0)
         => released[s] = 1

\* C4: a streamContent callback that rejects does not affect the task: when
\* the callback awaited by a terminal handler settles, either way, the
\* task's promise is settled and its permit released.
C4_CallbackFailureIsHarmless ==
  [][\A s \in Slots :
       awaiting'[s] < awaiting[s] =>
         promise'[s] # "pending" /\ released'[s] = 1]_vars

\* C5: a submission for which no runtime event ever arrives ends, when its
\* timeout fires, with a failed registry entry for its query carrying the
\* timeout message, and with its permit released.
C5_SilentTaskEndsFailed ==
  \A s \in Slots :
    (events = 0 /\ timer[s] = "fired") =>
      /\ released[s] = 1
      /\ \E id \in DOMAIN run : /\ run[id].task = taskQueries[s]
                                /\ run[id].status = "failed"
                                /\ run[id].result = TimeoutResult

\* C6: when the timer of a task fires while the task's entry exists and is
\* created or running, the entry becomes failed with the timeout result, the
\* summary is re-emitted, the promise is rejected and the permit released,
\* and the head of the wait queue is admitted in the same step.
C6_TimeoutForcesFailed ==
  [][\A s \in Slots :
       ( /\ timer[s] = "armed" /\ timer'[s] = "fired"
         /\ taskId[s] \in DOMAIN run
         /\ run[taskId[s]].status \in {"created", "running"} )
       =>
       /\ run'[taskId[s]].status = "failed"
       /\ run'[taskId[s]].result = TimeoutResult
       /\ streamContent => lastSummary' = summarizeRun(run', runKeys')
       /\ promise[s] = "pending" /\ promise'[s] = "rejected: Task timeout"
       /\ released'[s] = 1
       /\ waitQueue # <<>> =>
            /\ waitQueue' = Tail(waitQueue)
            /\ acquired'[Head(waitQueue)]
            /\ timer'[Head(waitQueue)] = "armed"
            /\ startCmd'[Head(waitQueue)] = "issued"]_vars

\* C6 witness: a created task timed out under a streamContent and the query
\* queued behind it now holds the permit
C6_Witness ==
  \E s, t \in Slots :
    /\ s # t
    /\ streamContent
    /\ maxConcurrency = 1
    /\ timer[s] = "fired"
    /\ taskId[s] \in DOMAIN run
    /\ run[taskId[s]].status = "failed"
    /\ run[taskId[s]].result = TimeoutResult
    /\ lastSummary = summarizeRun(run, runKeys)
    /\ released[s] = 1
    /\ acquired[t] /\ timer[t] = "armed" /\ released[t] = 0

\* C7: after the local timeout forced an entry to failed, every later
\* runtime event for it is discarded: status and timeout result stay.
C7_TimedOutIsFinal ==
  [][RuntimeEventStep =>
       \A id \in DOMAIN run :
         (run[id].status = "failed" /\ run[id].result = TimeoutResult)
           => run'[id] = run[id]]_vars

\* C8: when executeRooTasks returns, every entry of the returned registry
\* has a terminal status.
C8_ReturnedAllTerminal ==
  phase = "returned" =>
    \A id \in DOMAIN run : Terminal(id)

\* a task that has failed: its timer fired, its start was rejected, or a
\* terminal event left its entry failed
Failed(s) ==
  \/ timer[s] = "fired"
  \/ startCmd[s] = "rejected"
  \/ /\ timer[s] = "cleared"
     /\ taskId[s] \in DOMAIN run
     /\ run[taskId[s]].status = "failed"

\* C9: the failure of one task neither cancels nor blocks its siblings: the
\* step that settles a task's promise leaves every other task's promise,
\* timer and start command alone and admits the head of the wait queue;
\* executeRooTasks never rejects once the tasks are launched; a query waits
\* in the queue only while all permits are held; and a task that has failed
\* and has no handler in flight holds no permit a sibling could wait for.
C9_FailureSparesSiblings ==
  /\ [][\A s \in Slots :
          (promise[s] = "pending" /\ promise'[s] # "pending") =>
            /\ \A t \in Slots \ {s} :
                 /\ promise'[t] = promise[t]
                 /\ acquired[t] => /\ acquired'[t]
                                   /\ timer'[t] = timer[t]
                                   /\ startCmd'[t] = startCmd[t]
            /\ waitQueue # <<>> =>
                 /\ acquired'[Head(waitQueue)]
                 /\ startCmd'[Head(waitQueue)] = "issued"
                 /\ promise'[Head(waitQueue)] = "pending"]_vars
  /\ [][(phase = "running" \/ phase = "returned") => phase' # "rejected"]_vars
  /\ [](waitQueue # <<>> => permits <= 0)
  /\ [](\A s \in Slots :
          (acquired[s] /\ Failed(s) /\ awaiting[s] = 0) => released[s] = 1)

\* the new keys of the registry in a step
NewKeys == DOMAIN run' \ DOMAIN run

\* what C10 says of the step in which startNewTask rejects for s, but for
\* the promise
StartFailureRecorded(s) ==
  /\ Cardinality(NewKeys) = 1
  /\ \A id \in NewKeys :
       /\ id \notin TaskIds
       /\ run'[id].task = taskQueries[s]
       /\ run'[id].status = "failed"
       /\ \E error \in Errors : run'[id].result = StartFailedResult(error)
  /\ \A id \in DOMAIN run : run'[id] = run[id]
  /\ timer'[s] # "armed"
  /\ released'[s] = 1

StartRejectsStep(s) == startCmd[s] = "issued" /\ startCmd'[s] = "rejected"

\* C10 as stated: when startNewTask rejects, the registry gains exactly one
\* failed entry under a placeholder id, the timer is cancelled and never
\* fires afterwards, the promise is rejected with the start error and the
\* permit is released.
C10_StartFailure_Original ==
  [][\A s \in Slots :
       /\ StartRejectsStep(s) =>
            /\ StartFailureRecorded(s)
            /\ promise'[s] = "rejected: start error"
       /\ startCmd[s] = "rejected" => timer'[s] = timer[s]]_vars

\* C10 as amended: ... the promise is rejected with the start error if it
\* was still pending and keeps its earlier outcome otherwise (a timeout or a
\* terminal event came first); the permit is released in either case.
C10_StartFailure ==
  [][\A s \in Slots :
       /\ StartRejectsStep(s) =>
            /\ StartFailureRecorded(s)
            /\ promise'[s] = IF promise[s] = "pending"
                               THEN "rejected: start error" ELSE promise[s]
       /\ startCmd[s] = "rejected" => timer'[s] = timer[s]]_vars

\* C10 witness: a start was rejected while its promise was pending
C10_Witness ==
  \E s \in Slots :
    /\ startCmd[s] = "rejected"
    /\ promise[s] = "rejected: start error"
    /\ timer[s] = "cleared"
    /\ released[s] = 1
    /\ TempTaskId(1) \in DOMAIN run
    /\ run[TempTaskId(1)].status = "failed"

\* the callers of a Semaphore used alone that hold a permit
SemHolders == {c \in DOMAIN acquired : acquired[c] /\ released[c] = 0}

\* C11: callers that find no permit are queued and granted permits strictly
\* in the order they called acquire(): the queue is in call order, nobody is
\* granted a permit while an earlier caller still waits, and every release()
\* made while callers wait grants the permit to the longest-waiting one.
C11_Fifo ==
  /\ [](\A i \in 1..Len(waitQueue) :
         /\ \A j \in 1..Len(waitQueue) : i < j => waitQueue[i] < waitQueue[j]
         /\ \A c \in DOMAIN acquired : acquired[c] => c < waitQueue[i])
  /\ [][\A c \in DOMAIN acquired :
          (~acquired[c] /\ acquired'[c]) =>
             /\ c = Head(waitQueue)
             /\ waitQueue' = Tail(waitQueue)]_vars
  /\ [][(released' # released /\ Len(released') = Len(released)
             /\ waitQueue # <<>>) =>
          (acquired'[Head(waitQueue)] /\ waitQueue' = Tail(waitQueue))]_vars

\* C11 witness: two permits were released while several callers waited, and
\* the two that waited longest hold them, the later ones still queued
C11_Witness ==
  /\ maxConcurrency = 2
  /\ Len(released) = 6
  /\ released[1] = 1 /\ released[2] = 1
  /\ SemHolders = {3, 4}
  /\ waitQueue = <<5, 6>>

\* C13: release() hands the freed permit to the head of the wait queue in
\* the same step: between steps a free permit implies an empty queue, an
\* acquire() made while callers wait is queued behind them, and the holders
\* never outnumber the permits.
C13_NoFreePermitWhileQueued ==
  /\ [](permits > 0 => waitQueue = <<>>)
  /\ [](permits >= 0 /\ permits + Cardinality(SemHolders) = maxConcurrency)
  /\ [][(Len(acquired') = Len(acquired) + 1 /\ waitQueue # <<>>) =>
          /\ ~acquired'[Len(acquired')]
          /\ waitQueue' = Append(waitQueue, Len(acquired'))
          /\ permits' = permits]_vars

\* C13 witness: a release woke the head of the queue, and a caller that
\* called acquire() afterwards waits although a permit had just been freed
C13_Witness ==
  /\ maxConcurrency = 1
  /\ Len(released) = 3
  /\ released[1] = 1
  /\ SemHolders = {2}
  /\ permits = 0
  /\ waitQueue = <<3>>

\* C12: with a limit N >= 1 and more than N queries, startNewTask of a query
\* beyond the first N is not called, and its timer is not armed, until an
\* earlier task has released its permit; a query still in the wait queue has
\* neither.
C12_QueuedNotStarted ==
  maxConcurrency >= 1 =>
    /\ \A s \in Slots :
         (s > maxConcurrency /\ (startCmd[s] # "none" \/ timer[s] # "unset"))
           => \E t \in Slots : t < s /\ released[t] >= 1
    /\ \A i \in 1..Len(waitQueue) :
         startCmd[waitQueue[i]] = "none" /\ timer[waitQueue[i]] = "unset"

\* C12 witness: limit 1, the first task completed and released, and only
\* then the second query was started
C12_Witness ==
  /\ maxConcurrency = 1
  /\ Len(taskQueries) = 2
  /\ promise[1] = "resolved"
  /\ released[1] = 1
  /\ startCmd[2] = "issued"
  /\ timer[2] = "armed"

\* C14: the timer of a task is armed in the step in which the task obtains
\* its permit and never before: a query without a permit has no timer and a
\* pending promise, whatever the tasks ahead of it do, their timeouts
\* included.
C14_TimerOnlyWithPermit ==
  /\ [](\A s \in Slots :
         ~acquired[s] => (timer[s] = "unset" /\ promise[s] = "pending"))
  /\ [][\A s \in Slots :
          (timer[s] = "unset" /\ timer'[s] # "unset") =>
             (~acquired[s] /\ acquired'[s] /\ timer'[s] = "armed")]_vars

\* C14 witness: the task ahead ran into its timeout while the second query
\* waited; the second query's own timer was armed only then and has not fired
C14_Witness ==
  /\ maxConcurrency = 1
  /\ Len(taskQueries) = 2
  /\ timer[1] = "fired"
  /\ promise[1] = "rejected: Task timeout"
  /\ timer[2] = "armed"
  /\ promise[2] = "pending"

\* no timer of the call has fired
NoTimeout == \A s \in Slots : timer[s] # "fired"

\* with limit 1: a query is started only once the task before it is
\* completed, and what executeRooTasks returns has one completed entry per
\* query and nothing else
Sequential ==
  /\ \A s \in Slots :
       (s > 1 /\ startCmd[s] # "none") =>
          /\ OwnId(s - 1) \in DOMAIN run
          /\ run[OwnId(s - 1)].status = "completed"
  /\ phase = "returned" =>
       /\ Len(runKeys) = Len(taskQueries)
       /\ DOMAIN run = {OwnId(s) : s \in Slots}
       /\ \A id \in DOMAIN run : run[id].status = "completed"

\* C15 as stated: with maxConcurrency = 1 and tasks that each get an id of
\* their own and emit taskCreated, taskStarted and taskCompleted, query i+1
\* is started only after query i reached its terminal event and the returned
\* registry has exactly k entries, all completed.
C15_Sequential_Original == maxConcurrency = 1 => Sequential

\* C15, amended: the same for tasks that emit their three events before
\* their timeout fires.
C15_Sequential == (maxConcurrency = 1 /\ NoTimeout) => Sequential

\* C15 witness: limit 1, two queries run one after the other to completion
\* and the call returned
C15_Witness ==
  /\ maxConcurrency = 1
  /\ NoTimeout
  /\ Len(taskQueries) = 2
  /\ phase = "returned"
  /\ \A s \in Slots : OwnId(s) \in DOMAIN run
                        /\ run[OwnId(s)].status = "completed"

\* the runtime calls a handler of task s with the task's own id
HandlerCall(s) ==
  \E id \in TaskIds :
    /\ id = taskId[s]
    /\ \/ onTaskCreated(s, id)
       \/ onTaskStarted(s, id)
       \/ \E m \in Messages : onMessage(s, id, m)
       \/ onTaskCompleted(s, id)
       \/ onTaskAborted(s, id)
       \/ \E tool \in Tools, error \in Errors :
            onTaskToolFailed(s, id, tool, error)

\* C16: with a streamContent callback, the next event of a task is not
\* processed (no registry update, no streamContent invocation) before the
\* streamContent promise started for the task's previous event has settled;
\* stated for the promises the model keeps in awaiting, those started by the
\* task's terminal handlers.
C16_OneEventAtATime ==
  [][\A s \in SlotIds :
       (s \in Slots /\ streamContent /\ awaiting[s] > 0) => ~HandlerCall(s)]_vars

\* C17: with a streamContent callback, every step that changes the registry
\* calls streamContent with the summary of the registry as the step leaves
\* it, so the text last passed to the callback is always the summary of the
\* current registry and shows every task with its current status.
C17_SummaryFollowsRegistry ==
  /\ [](streamContent => lastSummary = summarizeRun(run, runKeys))
  /\ [][(streamContent /\ run' # run) =>
          lastSummary' = summarizeRun(run', runKeys')]_vars
  /\ [](streamContent =>
         /\ Len(lastSummary.sections) = Len(runKeys)
         /\ \A i \in 1..Len(runKeys) :
              lastSummary.sections[i].statusText =
                StatusText(run[runKeys[i]].status))

\* C17 witness: a streamed run in which a handler, the timeout and a failed
\* submission each wrote the registry
C17_Witness ==
  /\ streamContent
  /\ Len(runKeys) = 2
  /\ \E id \in DOMAIN run : run[id].result = TimeoutResult
  /\ \E id \in DOMAIN run : run[id].result = StartFailedResult("err")

\* position of a status on the path created -> running -> terminal
Rank(status) ==
  CASE status = "created" -> 1
    [] status = "running" -> 2
    [] status \in TerminalStatus -> 3

\* C18: on a non-terminal entry taskStarted yields running, taskCompleted
\* completed, taskAborted cancelled and taskToolFailed failed with a result
\* naming the tool and the error, taskCreated enters a task as created, and
\* no runtime event moves a non-terminal entry backwards (running never goes
\* back to created).
C18_TransitionTable ==
  [][\A s \in SlotIds, id \in TaskIds :
       /\ (id \notin DOMAIN run /\ onTaskCreated(s, id)) =>
            run'[id].status = "created"
       /\ (id \in DOMAIN run /\ ~Terminal(id)) =>
            /\ onTaskStarted(s, id) => run'[id].status = "running"
            /\ onTaskCompleted(s, id) => run'[id].status = "completed"
            /\ onTaskAborted(s, id) => run'[id].status = "cancelled"
            /\ \A tool \in Tools, error \in Errors :
                 onTaskToolFailed(s, id, tool, error) =>
                   /\ run'[id].status = "failed"
                   /\ \E i, j \in 1..Len(run'[id].result) :
                        run'[id].result[i] = tool /\ run'[id].result[j] = error
            /\ RuntimeEventStep =>
                 Rank(run'[id].status) >= Rank(run[id].status)]_vars

C21_CancelledOnlyByAbort ==
  [][\A id \in DOMAIN run' :
       (run'[id].status = "cancelled"
          /\ (id \notin DOMAIN run \/ run[id].status # "cancelled")) =>
         \E s \in SlotIds : id \in TaskIds /\ onTaskAborted(s, id)]_vars

\* C21 witness: a task was aborted by the runtime, another one timed out,
\* and dispose was called: only the aborted one is cancelled
C21_Witness ==
  /\ ~isInitialized
  /\ \E id \in DOMAIN run :
       run[id].status = "cancelled" /\ run[id].result = CancelledResult
  /\ \E id \in DOMAIN run :
       run[id].status = "failed" /\ run[id].result = TimeoutResult

\* C22: a terminal event whose id is not the id this handler set received in
\* its own taskCreated, or whose id has no registry entry, neither clears
\* this task's timer nor settles its promise nor releases its permit.
C22_ForeignEventIgnored ==
  [][\A s \in SlotIds, id \in TaskIds :
       (s \in Slots
          /\ (id # taskId[s] \/ id \notin DOMAIN run)
          /\ (\/ onTaskCompleted(s, id)
              \/ onTaskAborted(s, id)
              \/ \E tool \in Tools, error \in Errors :
                   onTaskToolFailed(s, id, tool, error))) =>
         /\ timer'[s] = timer[s]
         /\ promise'[s] = promise[s]
         /\ released'[s] = released[s]]_vars

\* a result that is a non-empty string
NonEmptyString(result) == result # <<>> /\ result # Undefined

\* C23: in every state every entry with a terminal status has a non-empty
\* result string.
C23_TerminalHasResult ==
  \A id \in DOMAIN run : Terminal(id) => NonEmptyString(run[id].result)

\* C24: every callback applies the writes that depend on its read of the
\* registry in the step of that read, so no update is lost: a step never
\* removes an entry, changes at most one entry, leaves every field it does
\* not assign as the latest callback left it, and a handler writes an entry
\* exactly when the entry exists at the moment of the call.
C24_NoLostUpdate ==
  [][/\ DOMAIN run \subseteq DOMAIN run'
     /\ Cardinality({k \in DOMAIN run' :
                       k \notin DOMAIN run \/ run'[k] # run[k]}) <= 1
     /\ \A s \in SlotIds, id \in TaskIds :
          /\ onTaskCreated(s, id) =>
               \A k \in DOMAIN run : k # id => run'[k] = run[k]
          /\ onTaskStarted(s, id) =>
               IF id \in DOMAIN run
                 THEN run' = [run EXCEPT ![id].status = "running",
                                         ![id].result = StartedResult]
                 ELSE run' = run
          /\ \A m \in Messages :
               onMessage(s, id, m) =>
                 IF id \in DOMAIN run
                   THEN run' = [run EXCEPT ![id].result = JSONStringify(m)]
                   ELSE run' = run
          /\ onTaskAborted(s, id) =>
               IF id \in DOMAIN run
                 THEN run' = [run EXCEPT ![id].status = "cancelled",
                                         ![id].result = CancelledResult]
                 ELSE run' = run
     /\ \A s \in SlotIds :
          Timeout(s) =>
            IF TimeoutFinds(s)
              THEN run' = [run EXCEPT ![taskId[s]].status = "failed",
                                      ![taskId[s]].result = TimeoutResult]
              ELSE run' = run
     /\ \A s \in SlotIds, error \in Errors :
          StartNewTaskRejects(s, error) =>
            \A k \in DOMAIN run : run'[k] = run[k]]_vars

\* C24 witness: callbacks of two tasks interleaved (handlers of both, a
\* timeout and a failed submission) and every update is in the registry
C24_Witness ==
  /\ Len(runKeys) = 3
  /\ \E id \in DOMAIN run : run[id].result = TimeoutResult
  /\ \E id \in DOMAIN run : run[id].result = StartFailedResult("err")
  /\ \E id \in DOMAIN run : run[id].status = "running"

\* the lines written to a wire, as the positions where they begin
LinesOf(wire) == {i \in 1..Len(wire.bytes) : wire.bytes[i].piece = 1}

\* C25: on every accepted socket the server writes exactly one Ack, of
\* origin server, carrying a non-empty clientId that no other connected
\* client has; the Ack is the first line on the wire to the client, so every
\* TaskEvent comes after it, and the client emits no taskEvent before it has
\* read past the Ack.
C25_AckFirst ==
  \A c \in Conns :
    socket[c].state # "none" =>
      LET b == toClient[c].bytes IN
      /\ Len(b) >= 2
      /\ b[1].piece = 1 /\ b[2].piece = 2
      /\ b[1].msg = Ack(socket[c].clientId)
      /\ b[1].msg.origin = "server"
      /\ socket[c].clientId # ""
      /\ Cardinality({i \in LinesOf(toClient[c]) : b[i].msg.type = "Ack"}) = 1
      /\ \A i \in LinesOf(toClient[c]) : b[i].msg.type = "TaskEvent" => i > 2
      /\ taskEvents[c] # <<>> => toClient[c].read > 2
      /\ \A d \in Conns \ {c} :
           (socket[c].state = "open" /\ socket[d].state = "open") =>
              socket[d].clientId # socket[c].clientId

\* C25 witness: two clients are connected, a TaskEvent was broadcast to both
\* and one of them has emitted it
C25_Witness ==
  /\ \A c \in Conns : socket[c].state = "open"
  /\ \A c \in Conns : Len(toClient[c].bytes) = 4
  /\ \E c \in Conns : taskEvents[c] # <<>>

\* C26: a read that is not valid JSON is a failure of that read only: the
\* server emits nothing for it and keeps the socket and its registration,
\* the client emits nothing for it, and a read that then brings a complete
\* TaskCommand (to the server) or TaskEvent (to the client) is processed as
\* on a fresh connection.
C26_MalformedIsDiscarded ==
  /\ [][\A c \in Conns, k \in 1..(2 * MaxLines) :
          handleClientMessage(c, k) =>
            LET parsed == JSONParse(NextRead(toServer[c], k)) IN
            /\ socket' = socket /\ clients' = clients
            /\ parsed = <<>> => emitted' = emitted
            /\ (parsed # <<>> /\ parsed[1].type = "TaskCommand") =>
                 emitted' = Append(emitted,
                                   [event |-> "TaskCommand",
                                    clientId |-> socket[c].clientId,
                                    data |-> parsed[1].data])]_vars
  /\ [][\A c \in Conns, k \in 1..(2 * MaxBroadcasts + 2) :
          handleMessage(c, k) =>
            LET parsed == JSONParse(NextRead(toClient[c], k)) IN
            /\ socket' = socket /\ clients' = clients
            /\ parsed = <<>> => taskEvents' = taskEvents
            /\ (parsed # <<>> /\ parsed[1].type = "TaskEvent") =>
                 taskEvents'[c] = Append(taskEvents[c], parsed[1].data)]_vars

\* C26 witness: a client wrote a line that is no JSON and then a
\* TaskCommand; the server read them one by one, is still connected to the
\* client and has emitted the TaskCommand
C26_Witness ==
  \E c \in Conns :
    /\ socket[c].state = "open"
    /\ socket[c].clientId \in DOMAIN clients
    /\ Len(toServer[c].bytes) = 4
    /\ toServer[c].bytes[1].msg.type = NotJson
    /\ toServer[c].read = 4
    /\ \E i \in 1..Len(emitted) :
         emitted[i] = [event |-> "TaskCommand",
                       clientId |-> socket[c].clientId, data |-> "2"]

\* C27: a well-formed message whose type the receiver does not know changes
\* nothing and emits nothing, on the server and on the client; only the
\* read position moves on, so later messages are processed.
C27_UnknownTypeIgnored ==
  /\ [][\A c \in Conns, k \in 1..(2 * MaxLines) :
          (handleClientMessage(c, k)
             /\ JSONParse(NextRead(toServer[c], k)) # <<>>
             /\ JSONParse(NextRead(toServer[c], k))[1].type # "TaskCommand") =>
            /\ emitted' = emitted
            /\ UNCHANGED <<clients, socket, toClient, taskEvents>>
            /\ toServer'[c].bytes = toServer[c].bytes]_vars
  /\ [][\A c \in Conns, k \in 1..(2 * MaxBroadcasts + 2) :
          (handleMessage(c, k)
             /\ JSONParse(NextRead(toClient[c], k)) # <<>>
             /\ JSONParse(NextRead(toClient[c], k))[1].type
                  \notin {"Ack", "TaskEvent"}) =>
            /\ taskEvents' = taskEvents
            /\ UNCHANGED <<clients, socket, toServer, emitted>>
            /\ toClient'[c].bytes = toClient[c].bytes]_vars

\* C27 witness: the server read a message of unknown type and then a
\* TaskCommand of the same client, which it emitted
C27_Witness ==
  \E c \in Conns :
    /\ Len(toServer[c].bytes) = 4
    /\ toServer[c].bytes[1].msg.type = FutureType
    /\ toServer[c].read = 4
    /\ \E i \in 1..Len(emitted) :
         emitted[i] = [event |-> "TaskCommand",
                       clientId |-> socket[c].clientId, data |-> "2"]

\* the TaskCommands the server emitted for socket c, and the TaskCommand
\* lines written to it
CommandsEmitted(c) ==
  SelectSeq(emitted, LAMBDA e : e.event = "TaskCommand"
                                  /\ e.clientId = socket[c].clientId)
CommandsWritten(c) ==
  SelectSeq(toServer[c].bytes,
            LAMBDA b : b.piece = 1 /\ b.msg.type = "TaskCommand")
EventsWritten(c) ==
  SelectSeq(toClient[c].bytes,
            LAMBDA b : b.piece = 1 /\ b.msg.type = "TaskEvent")

\* C28: however the byte stream is cut into reads, every complete line is
\* delivered exactly once and in order: once a receiver has read all bytes
\* written to it, it has emitted every TaskCommand (server) or TaskEvent
\* (client) line, each once, in the order written.
C28_LineFraming ==
  \A c \in Conns :
    /\ (socket[c].state = "open" /\ Unread(toServer[c]) = 0) =>
         /\ Len(CommandsEmitted(c)) = Len(CommandsWritten(c))
         /\ \A i \in 1..Len(CommandsEmitted(c)) :
              CommandsEmitted(c)[i].data = CommandsWritten(c)[i].msg.data
    /\ (socket[c].state # "none" /\ Unread(toClient[c]) = 0) =>
         /\ Len(taskEvents[c]) = Len(EventsWritten(c))
         /\ \A i \in 1..Len(taskEvents[c]) :
              taskEvents[c][i] = EventsWritten(c)[i].msg.data

\* C30: executeRooTasks called while the manager is not initialized, be it
\* that initialize never succeeded or that dispose was called since, fails
\* with an error and has no effect: no permit is acquired, no start command
\* is issued, no timer is started, streamContent is not invoked and the
\* registry is not touched
C30_NotInitializedRejects ==
  /\ [][dispose => ~isInitialized']_vars
  /\ [][\A n \in 0..MaxQueries, N \in 0..MaxConcurrencyOpt, w \in BOOLEAN :
          (~isInitialized /\ executeRooTasks(n, N, w))
            => /\ phase' = "rejected"
               /\ UNCHANGED <<permits, waitQueue, acquired, timer, startCmd,
                              lastSummary, run, runKeys, promise, taskQueries,
                              streamContent>>]_vars

C30_Witness ==
  /\ phase = "rejected"
  /\ ~isInitialized
  /\ taskQueries = <<>>
  /\ startCmd = <<>>
  /\ lastSummary.title = ""

\* the positions of the STREAM_CLOSED frames in the frames of one stream
StreamClosedAt(f) == {i \in 1..Len(f) : f[i].kind = "STREAM_CLOSED"}

\* a STREAM_CLOSED frame of a stream is its only one and its last frame, and
\* it follows what its reason names
ClosedLast(f) ==
  \A i \in StreamClosedAt(f) :
    /\ i = Len(f)
    /\ i > 1
    /\ \/ /\ f[i].detail = "task_completed"
          /\ f[i - 1].kind = "TASK_COMPLETED"
       \/ /\ f[i].detail = "followup_question"
          /\ f[i - 1] = Frame("MESSAGE", "followup")

C31_InitializeLifecycle ==
  /\ [][\A a \in BOOLEAN :
          initialize(a) =>
            /\ UNCHANGED <<phase, run, runKeys, permits, timer, startCmd>>
            /\ (~isInitialized /\ ~a) =>
                 /\ ~isInitialized'
                 /\ initResult' = "rejected: RooCode adapter is not available"
            /\ (~isInitialized /\ a) =>
                 /\ isInitialized'
                 /\ initResult' = "resolved"
            /\ isInitialized =>
                 /\ isInitialized'
                 /\ initResult' = "resolved: already initialized"]_vars
  /\ [][(~isInitialized /\ isInitialized') => initialize(TRUE)]_vars
  /\ [][dispose => (isInitialized /\ ~isInitialized')]_vars

\* initialize() was rejected after a dispose(): the manager is still
\* uninitialized while the call made before the dispose() goes on
C31_Witness ==
  /\ ~isInitialized
  /\ initResult = "rejected: RooCode adapter is not available"
  /\ phase = "running"

\* nothing of the run has begun: no permit is held or queued for, no start
\* command was issued, no timer runs and the registry is empty
NothingStarted ==
  /\ \A s \in Slots : /\ ~acquired[s]
                      /\ startCmd[s] = "none"
                      /\ timer[s] = "unset"
                      /\ promise[s] = "pending"
  /\ waitQueue = <<>>
  /\ run = <<>>
  /\ runKeys = <<>>

\* C32: when a streamContent callback is supplied, executeRooTasks first
\* emits the summary of the empty registry ("No tasks started yet") and waits
\* for that callback to settle before any permit is acquired or any start
\* command is issued; if that first callback rejects, executeRooTasks rejects
\* and no task is started
C32_InitialSummaryFirst ==
  /\ [](phase = "initial" =>
          /\ streamContent
          /\ lastSummary = summarizeRun(<<>>, <<>>)
          /\ lastSummary.note = NoTasksText
          /\ NothingStarted)
  /\ []((phase = "rejected" /\ streamContent) => NothingStarted)
  /\ [][\A n \in 0..MaxQueries, N \in 0..MaxConcurrencyOpt :
          (isInitialized /\ executeRooTasks(n, N, TRUE)) => phase' = "initial"]_vars
  /\ [][InitialStreamSettles(FALSE) => phase' = "rejected"]_vars
  /\ [][(phase = "rejected") => (phase' = "rejected")]_vars

C32_Witness ==
  /\ phase = "rejected"
  /\ streamContent
  /\ Len(taskQueries) = MaxQueries
  /\ maxConcurrency > 0

\* C33: a message event changes only the result field of the registry entry
\* it names: it leaves that entry's status and query unchanged, leaves every
\* other entry and the set of entries unchanged, does not touch the timeout
\* timers or the permits, and does not settle a promise
C33_MessageFrame ==
  [][\A s \in SlotIds, id \in TaskIds, m \in Messages :
       (s \in Slots /\ onMessage(s, id, m)) =>
         /\ DOMAIN run' = DOMAIN run
         /\ runKeys' = runKeys
         /\ \A k \in DOMAIN run :
              /\ run'[k].status = run[k].status
              /\ run'[k].task = run[k].task
              /\ k # id => run'[k] = run[k]
         /\ id \in DOMAIN run => run'[id].result = JSONStringify(m)
         /\ UNCHANGED <<timer, permits, waitQueue, acquired, released,
                        promise, startCmd, taskId, phase>>]_vars

\* a message was handled for a created task while another task has failed
C33_Witness ==
  \E id \in DOMAIN run, k \in DOMAIN run, s \in Slots :
    /\ k # id
    /\ taskId[s] = id
    /\ run[id].status = "created"
    /\ run[id].result = JSONStringify("say")
    /\ run[k].status = "failed"
    /\ timer[s] = "armed"
    /\ promise[s] = "pending"

\* C34: on taskCompleted the entry keeps the result it has, which is the one
\* the last message event wrote, as its final result; the result is replaced
\* by "Task completed successfully" exactly when, at that moment, it is empty
\* (the empty string or undefined) or still the "Task started..." placeholder
C34_CompletedKeepsResult ==
  [][\A s \in SlotIds, id \in TaskIds :
       (s \in Slots /\ id \in DOMAIN run /\ onTaskCompleted(s, id)) =>
         /\ run'[id].status = "completed"
         /\ IF run[id].result \in {<<>>, Undefined, StartedResult}
              THEN run'[id].result = CompletedResult
              ELSE run'[id].result = run[id].result]_vars

\* a task completed after a message: its result is the message's text
C34_Witness ==
  \E id \in DOMAIN run :
    /\ run[id].status = "completed"
    /\ run[id].result = JSONStringify("say")
    /\ \E s \in Slots : taskId[s] = id /\ promise[s] = "resolved"

\* the label the summary prints for each status
Labels ==
  {<<"created", "(Created)">>, <<"running", "(Ongoing)">>,
   <<"completed", "">>, <<"failed", "(Failed)">>,
   <<"cancelled", "(Cancelled)">>}

\* C35: summarizeRun depends on the registry only: for the empty registry it
\* is the "No tasks started yet" text; otherwise it lists every entry once,
\* in insertion order, with the label (Created), (Ongoing), none, (Failed) or
\* (Cancelled) for created, running, completed, failed and cancelled, and it
\* prints the task-id line exactly for the entries that are completed or
\* failed
C35_SummaryOfRegistry ==
  LET text == summarizeRun(run, runKeys) IN
    /\ text.title = "# RooCode Tasks"
    /\ run = <<>> => (text.note = NoTasksText /\ text.sections = <<>>)
    /\ run # <<>> =>
         /\ text.note = ""
         /\ Len(text.sections) = Cardinality(DOMAIN run)
         /\ \A i \in 1..Len(text.sections) :
              LET id == runKeys[i]
                  section == text.sections[i] IN
                /\ id \in DOMAIN run
                /\ \A j \in 1..Len(runKeys) : j # i => runKeys[j] # id
                /\ section.task = run[id].task
                /\ section.result = run[id].result
                /\ <<run[id].status, section.statusText>> \in Labels
                /\ section.idLine =
                     IF run[id].status = "completed" \/ run[id].status = "failed"
                       THEN <<id>> ELSE <<>>
    /\ streamContent /\ phase \in {"running", "returned"} => lastSummary = text

\* the summary of a registry of two entries was emitted, the first inserted
\* being completed or failed and the second not
C35_Witness ==
  /\ streamContent
  /\ Len(runKeys) = 2
  /\ lastSummary = summarizeRun(run, runKeys)
  /\ lastSummary.sections[1].idLine = <<runKeys[1]>>
  /\ lastSummary.sections[2].idLine = <<>>
  /\ lastSummary.sections[1].task # lastSummary.sections[2].task

\* the runtime calls a terminal handler of task s with id
TerminalEvent(s, id) ==
  \/ onTaskCompleted(s, id)
  \/ onTaskAborted(s, id)
  \/ \E tool \in Tools, error \in Errors : onTaskToolFailed(s, id, tool, error)

\* C36: once a runtime terminal event (taskCompleted, taskAborted or
\* taskToolFailed) has been handled for a task, that task's timeout timer is
\* cancelled and never fires: a completed or cancelled entry is never turned
\* into failed by the timeout, and the timer re-emits no summary afterwards
C36_NoTimeoutAfterTerminal ==
  /\ [][\A s \in SlotIds, id \in TaskIds :
          (s \in Slots /\ TerminalEvent(s, id)) => timer'[s] # "armed"]_vars
  /\ [][\A s \in SlotIds :
          (s \in Slots /\ timer[s] = "cleared") => timer'[s] = "cleared"]_vars
  /\ [][\A s \in SlotIds :
          (s \in Slots /\ Timeout(s)) =>
            \A k \in DOMAIN run :
              run[k].status \in {"completed", "cancelled"} =>
                /\ run'[k] = run[k]
                /\ k = taskId[s] => lastSummary' = lastSummary]_vars

\* a task whose terminal handler was cut short by a rejected streamContent:
\* timer cancelled, no callback pending, promise never settled
Stuck(s) ==
  /\ acquired[s]
  /\ timer[s] = "cleared"
  /\ awaiting[s] = 0
  /\ promise[s] = "pending"

\* C37: executeRooTasks eventually returns for every list of queries and
\* every maxConcurrency >= 1, given only that an armed timer fires unless
\* cancelled and that the streamContent callback settles; with
\* maxConcurrency <= 0 and at least one query no task is ever started
C37_EventuallyReturns ==
  /\ (phase \in {"initial", "running"} /\ maxConcurrency >= 1)
       ~> (phase \in {"returned", "rejected"})
  /\ [](maxConcurrency = 0 =>
          \A s \in Slots : ~acquired[s] /\ startCmd[s] = "none")

\* what does hold: the call returns unless a task is stuck behind a rejected
\* callback
C37_ReturnsUnlessStuck ==
  (phase \in {"initial", "running"} /\ maxConcurrency >= 1)
    ~> (phase \in {"returned", "rejected"} \/ \E s \in Slots : Stuck(s))

\* C38: registry entries are created only by a taskCreated event and by the
\* submission-failure path: taskStarted, message, taskCompleted, taskAborted
\* and taskToolFailed carrying an id that has no registry entry leave the
\* whole registry unchanged and emit no summary
C38_OnlyCreatedAddsEntries ==
  /\ [][\A s \in SlotIds, id \in TaskIds :
          ( /\ s \in Slots
            /\ id \notin DOMAIN run
            /\ \/ onTaskStarted(s, id)
               \/ \E m \in Messages : onMessage(s, id, m)
               \/ TerminalEvent(s, id) )
          => UNCHANGED <<run, runKeys, lastSummary>>]_vars
  /\ [][(DOMAIN run' # DOMAIN run) =>
          /\ DOMAIN run \subseteq DOMAIN run'
          /\ \/ \E s \in Slots, id \in TaskIds : onTaskCreated(s, id)
             \/ \E s \in Slots, error \in Errors : StartNewTaskRejects(s, error)]_vars

\* the runtime sent all its events, none of them a taskCreated, and the last
\* summary is still the one of the empty registry
C38_Witness ==
  /\ events = MaxEvents
  /\ run = <<>>
  /\ streamContent
  /\ lastSummary = summarizeRun(<<>>, <<>>)
  /\ \E s \in Slots : timer[s] = "cleared"

\* the registry entries that are neither completed, failed nor cancelled
NonTerminalEntries == {k \in DOMAIN run : run[k].status \in {"created", "running"}}

\* C39: in every reachable state of one executeRooTasks run the number of
\* registry entries whose status is created or running is at most
\* maxConcurrency, so a summary never shows more than maxConcurrency tasks as
\* Created or Ongoing
C39_NonTerminalBounded ==
  /\ Cardinality(NonTerminalEntries) <= maxConcurrency
  /\ Cardinality({i \in 1..Len(lastSummary.sections) :
                    lastSummary.sections[i].statusText
                      \in {"(Created)", "(Ongoing)"}}) <= maxConcurrency

====
